---------------------------- MODULE Spec2Model ----------------------------
(***************************************************************************)
(* findstar: the cache-backed paginated fetch of a user's starred          *)
(* repositories (Findstar.__init__, fetch_stars, fetch_page, fetch_readme, *)
(* parse_link_header), the per-user cache file (Cache) and the keyword     *)
(* filter (Findstar.filter_stars), modelled from src/findstar.py.          *)
(*                                                                         *)
(* Python values are tagged records [t, s, n, l]: t is the Python type,    *)
(* s the symbols of a str, n the value of an int, l the items of a list or *)
(* the key/value pairs of a dict.  A str is a sequence of symbols; "\n" is *)
(* the newline symbol.  An exception is the name of its class, "" is none. *)
(***************************************************************************)
EXTENDS Integers, Sequences, FiniteSets, TLC

VARIABLES
    file,            \* the user's cache file: [exists, bytes]
    remote,          \* the remote service: [pages, link]
    pc,              \* position of the current run in Findstar.__init__
    flush,           \* self.flush
    filter_and,      \* self.filter_and
    greps,           \* self.greps
    stars,           \* self.stars
    matching_stars,  \* self.matching_stars
    last_page,       \* self.last_page
    page,            \* the page fetch_stars requests next
    exc,             \* the exception that ended the run, "" if none
    listing_reqs,    \* pages requested from the listing endpoint, this run
    readme_reqs,     \* full names requested from the README endpoint, this run
    seen,            \* the listing responses received, this run
    start_file,      \* the cache file when this run started
    wrote,           \* Cache.write was called in this run
    prev,            \* the run before: [ok, bytes], ok when it was a forced
                     \* refresh that completed on the remote's own answers
    given,           \* the argument of a function applied on its own
    ops,             \* the Cache operations executed, this run, in order
    reader           \* what a reader in another process found in the file
                     \* during this run: [did, at, file]

vars == << file, remote, pc, flush, filter_and, greps, stars, matching_stars,
           last_page, page, exc, listing_reqs, readme_reqs, seen, start_file,
           wrote, prev, given, ops, reader >>

----------------------------------------------------------------------------
(* Bounds of the model *)

MaxPages == 2
MaxStars == 2

----------------------------------------------------------------------------
(* Python values *)

PyNone == [t |-> "NoneType", s |-> << >>, n |-> 0, l |-> << >>]
PyStr(x) == [t |-> "str", s |-> x, n |-> 0, l |-> << >>]
PyInt(k) == [t |-> "int", s |-> << >>, n |-> k, l |-> << >>]
PyList(xs) == [t |-> "list", s |-> << >>, n |-> 0, l |-> xs]
PyDict(kvs) == [t |-> "dict", s |-> << >>, n |-> 0, l |-> kvs]
Pair(key, val) == [k |-> key, v |-> val]

HasKey(d, key) == \E i \in 1..Len(d.l) : d.l[i].k = key

\* d[key]: the value of the last pair with that key
Get(d, key) ==
    LET i == CHOOSE j \in 1..Len(d.l) :
                 /\ d.l[j].k = key
                 /\ \A m \in (j+1)..Len(d.l) : d.l[m].k # key
    IN  d.l[i].v

RECURSIVE Concat(_)
Concat(ss) == IF ss = << >> THEN << >> ELSE Head(ss) \o Concat(Tail(ss))

RECURSIVE SelectIdx(_, _, _)
SelectIdx(xs, keep, i) ==
    IF i > Len(xs) THEN << >>
    ELSE (IF keep[i] THEN << xs[i] >> ELSE << >>) \o SelectIdx(xs, keep, i + 1)

----------------------------------------------------------------------------
(* json: the text is a sequence of lexemes [t, s, n]; separators and       *)
(* whitespace are not represented.                                         *)

Lex(kind) == [t |-> kind, s |-> << >>, n |-> 0]
LexStr(x) == [t |-> "str", s |-> x, n |-> 0]
LexInt(k) == [t |-> "int", s |-> << >>, n |-> k]

RECURSIVE json_dumps(_)
json_dumps(v) ==
    CASE v.t = "NoneType" -> << Lex("null") >>
      [] v.t = "str" -> << LexStr(v.s) >>
      [] v.t = "int" -> << LexInt(v.n) >>
      [] v.t = "list" ->
            << Lex("[") >>
            \o Concat([i \in 1..Len(v.l) |-> json_dumps(v.l[i])])
            \o << Lex("]") >>
      [] v.t = "dict" ->
            << Lex("{") >>
            \o Concat([i \in 1..Len(v.l) |->
                         << LexStr(v.l[i].k) >> \o json_dumps(v.l[i].v)])
            \o << Lex("}") >>

ParseFail == [ok |-> FALSE, v |-> PyNone, i |-> 0]
ParseOk(val, next) == [ok |-> TRUE, v |-> val, i |-> next]

RECURSIVE ParseValue(_, _), ParseItems(_, _, _), ParseMembers(_, _, _)
ParseValue(toks, i) ==
    IF i > Len(toks) THEN ParseFail
    ELSE CASE toks[i].t = "null" -> ParseOk(PyNone, i + 1)
           [] toks[i].t = "int" -> ParseOk(PyInt(toks[i].n), i + 1)
           [] toks[i].t = "str" -> ParseOk(PyStr(toks[i].s), i + 1)
           [] toks[i].t = "[" -> ParseItems(toks, i + 1, << >>)
           [] toks[i].t = "{" -> ParseMembers(toks, i + 1, << >>)
           [] OTHER -> ParseFail

ParseItems(toks, i, acc) ==
    IF i > Len(toks) THEN ParseFail
    ELSE IF toks[i].t = "]" THEN ParseOk(PyList(acc), i + 1)
    ELSE LET r == ParseValue(toks, i)
         IN  IF r.ok THEN ParseItems(toks, r.i, Append(acc, r.v)) ELSE ParseFail

ParseMembers(toks, i, acc) ==
    IF i > Len(toks) THEN ParseFail
    ELSE IF toks[i].t = "}" THEN ParseOk(PyDict(acc), i + 1)
    ELSE IF toks[i].t # "str" THEN ParseFail
    ELSE LET r == ParseValue(toks, i + 1)
         IN  IF r.ok
             THEN ParseMembers(toks, r.i, Append(acc, Pair(toks[i].s, r.v)))
             ELSE ParseFail

\* json.loads: [ok, v]; ok = FALSE is json.JSONDecodeError
json_loads(toks) ==
    LET r == ParseValue(toks, 1)
    IN  IF r.ok /\ r.i = Len(toks) + 1
        THEN [ok |-> TRUE, v |-> r.v]
        ELSE [ok |-> FALSE, v |-> PyNone]

----------------------------------------------------------------------------
(* zlib: a stream is a header, the data and a trailer that checks it.      *)

ZHeader == [t |-> "zlib", s |-> << >>, n |-> 0]
ZTrailer(data) == [t |-> "adler32", s |-> << >>, n |-> Len(data)]

compress(data) == << ZHeader >> \o data \o << ZTrailer(data) >>

\* decompress: [ok, data]; ok = FALSE is zlib.error
decompress(bytes) ==
    LET k == Len(bytes)
        data == SubSeq(bytes, 2, k - 1)
    IN  IF k >= 2 /\ bytes[1] = ZHeader /\ bytes[k] = ZTrailer(data)
        THEN [ok |-> TRUE, data |-> data]
        ELSE [ok |-> FALSE, data |-> << >>]

\* bytes.decode(): a byte that is not UTF-8 is UnicodeDecodeError
decode_ok(data) == \A i \in 1..Len(data) : data[i].t # "0xff"

----------------------------------------------------------------------------
(* class Star *)

K(name) == << name >>

NoStar ==
    [id |-> PyNone, name |-> PyNone, owner |-> PyNone, full_name |-> PyNone,
     html_url |-> PyNone, default_branch |-> PyNone, description |-> PyNone,
     readme |-> PyNone, matches |-> PyList(<< >>)]

StarKeys ==
    << K("id"), K("name"), K("owner"), K("full_name"), K("html_url"),
       K("default_branch"), K("description"), K("readme") >>

\* Star.__init__ with an absent description turned into the empty text
Star_init_NullAsEmpty(kwargs) ==
    IF \E i \in 1..Len(StarKeys) : ~HasKey(kwargs, StarKeys[i])
    THEN [exc |-> "KeyError", star |-> NoStar]
    ELSE [exc |-> "",
          star |-> [id |-> Get(kwargs, K("id")),
                    name |-> Get(kwargs, K("name")),
                    owner |-> Get(kwargs, K("owner")),
                    full_name |-> Get(kwargs, K("full_name")),
                    html_url |-> Get(kwargs, K("html_url")),
                    default_branch |-> Get(kwargs, K("default_branch")),
                    description |->
                        IF Get(kwargs, K("description")).t = "NoneType"
                        THEN PyStr(<< >>)
                        ELSE Get(kwargs, K("description")),
                    readme |-> Get(kwargs, K("readme")),
                    matches |-> PyList(<< >>)]]

\* matches taken from the stored dictionary when it has them
InitMatches_FromEntry(kwargs) ==
    IF HasKey(kwargs, K("matches")) THEN Get(kwargs, K("matches"))
    ELSE PyList(<< >>)

\* line 235: self.matches = []
InitMatches(kwargs) == PyList(<< >>)

\* Star.__init__(**kwargs): [exc, star]; a keyword that is not read is ignored
Star_init(kwargs) ==
    IF \E i \in 1..Len(StarKeys) : ~HasKey(kwargs, StarKeys[i])
    THEN [exc |-> "KeyError", star |-> NoStar]
    ELSE [exc |-> "",
          star |-> [id |-> Get(kwargs, K("id")),
                    name |-> Get(kwargs, K("name")),
                    owner |-> Get(kwargs, K("owner")),
                    full_name |-> Get(kwargs, K("full_name")),
                    html_url |-> Get(kwargs, K("html_url")),
                    default_branch |-> Get(kwargs, K("default_branch")),
                    description |-> Get(kwargs, K("description")),
                    readme |-> Get(kwargs, K("readme")),
                    matches |-> InitMatches(kwargs)]]

\* vars(star): the instance dictionary, in the order __init__ sets it
vars_of(star) ==
    PyDict(<< Pair(K("id"), star.id),
              Pair(K("name"), star.name),
              Pair(K("owner"), star.owner),
              Pair(K("full_name"), star.full_name),
              Pair(K("html_url"), star.html_url),
              Pair(K("default_branch"), star.default_branch),
              Pair(K("description"), star.description),
              Pair(K("readme"), star.readme),
              Pair(K("matches"), star.matches) >>)

\* a record without its transient matches
Canon(star) == [star EXCEPT !.matches = PyList(<< >>)]

----------------------------------------------------------------------------
(* Findstar.filter_stars *)

NL == "\n"

\* str.split("\n")
RECURSIVE Split(_)
Split(x) ==
    IF \E i \in 1..Len(x) : x[i] = NL
    THEN LET i == CHOOSE j \in 1..Len(x) :
                      x[j] = NL /\ \A m \in 1..(j-1) : x[m] # NL
         IN  << SubSeq(x, 1, i - 1) >> \o Split(SubSeq(x, i + 1, Len(x)))
    ELSE << x >>

\* g in line
In(g, line) ==
    \E i \in 0..(Len(line) - Len(g)) : SubSeq(line, i + 1, i + Len(g)) = g

\* line 105, getattr(star, key).split("\n"): [exc, lines]; a field that is
\* not a str has no split
SplitField(v) ==
    IF v.t = "str" THEN [exc |-> "", lines |-> Split(v.s)]
    ELSE [exc |-> "AttributeError", lines |-> << >>]

\* an except clause for another class of exception
Caught_TypeError(e) == e = "TypeError"

\* line 108: the exception the try passes over
Caught(e) == e = "AttributeError"

\* the lines of one field; a field whose split raises has none
LinesOf(v) == IF SplitField(v).exc = "" THEN SplitField(v).lines ELSE << >>

\* the exception that leaves the try of lines 104-109 for one field
FieldExc(v) ==
    IF SplitField(v).exc # "" /\ ~Caught(SplitField(v).exc)
    THEN SplitField(v).exc ELSE ""

\* the exception the loop of line 103 raises for one star
StarExc(star) ==
    IF FieldExc(star.description) # "" THEN FieldExc(star.description)
    ELSE FieldExc(star.readme)

\* any(g in line for g in self.greps)
AnyGrep(gs, line) == \E i \in 1..Len(gs) : In(gs[i], line)

\* the matches taken from the description alone
MatchesOf_DescriptionOnly(star, gs) ==
    SelectSeq(LinesOf(star.description), LAMBDA line : AnyGrep(gs, line))

\* lines 100-109: the matches of one star
MatchesOf(star, gs) ==
    SelectSeq(LinesOf(star.description) \o LinesOf(star.readme),
              LAMBDA line : AnyGrep(gs, line))

\* lines 111-112: star.matches is set only when there are matches
Matched(star, gs) ==
    LET m == MatchesOf(star, gs)
    IN  IF m # << >>
        THEN [star EXCEPT !.matches = PyList([i \in 1..Len(m) |-> PyStr(m[i])])]
        ELSE star

\* all of greps required in one and the same line
AllGreps_SameLine(star, gs) ==
    \E j \in 1..Len(star.matches.l) :
        \A i \in 1..Len(gs) : In(gs[i], star.matches.l[j].s)

\* lines 117-121: all of greps are present in star.matches
AllGreps(star, gs) ==
    \A i \in 1..Len(gs) :
        \E j \in 1..Len(star.matches.l) : In(gs[i], star.matches.l[j].s)

\* AND mode tested without the test for matches of line 111
Selected_Vacuous(star, gs, fand) ==
    IF fand THEN AllGreps(Matched(star, gs), gs)
    ELSE MatchesOf(star, gs) # << >>

\* lines 111-125: the star is selected
Selected(star, gs, fand) ==
    /\ MatchesOf(star, gs) # << >>
    /\ fand => AllGreps(Matched(star, gs), gs)

\* filter_stars: [exc, stars, matching]; the stars are changed in place, up
\* to the first one that raises
filter_stars(ss, gs, fand) ==
    LET bad == { i \in 1..Len(ss) : StarExc(ss[i]) # "" }
        stop == IF bad = { } THEN Len(ss) + 1
                ELSE CHOOSE i \in bad : \A j \in bad : i <= j
        after == [i \in 1..Len(ss) |->
                     IF i < stop THEN Matched(ss[i], gs) ELSE ss[i]]
        keep == [i \in 1..Len(ss) |-> Selected(ss[i], gs, fand)]
    IN  IF bad = { }
        THEN [exc |-> "", stars |-> after,
              matching |-> SelectIdx(after, keep, 1)]
        ELSE [exc |-> StarExc(ss[stop]), stars |-> after, matching |-> << >>]

----------------------------------------------------------------------------
(* class Cache: the file of one user is [exists, bytes] *)

NoFile == [exists |-> FALSE, bytes |-> << >>]
EmptyFile == [exists |-> TRUE, bytes |-> << >>]

file_exists_Never(f) == FALSE

\* isfile(self.file)
file_exists(f) == f.exists

\* open(self.file, "w").close()
create_file(f) == EmptyFile

\* Cache.empty leaving the entry as it is
empty_Noop(f) == f

\* open(self.file, "w").close() on an existing file
empty(f) == EmptyFile

\* remove(self.file); FileNotFoundError when there is none
delete(f) == NoFile

\* [Star(**star) for star in stars] over the items of a list: [exc, val]
RECURSIVE StarsOf(_, _)
StarsOf(items, acc) ==
    IF items = << >> THEN [exc |-> "", val |-> acc]
    ELSE IF Head(items).t # "dict" THEN [exc |-> "TypeError", val |-> << >>]
    ELSE LET r == Star_init(Head(items))
         IN  IF r.exc # "" THEN [exc |-> r.exc, val |-> << >>]
             ELSE StarsOf(Tail(items), Append(acc, r.star))

\* the comprehension over any JSON value
StarsOfValue(v) ==
    CASE v.t = "list" -> StarsOf(v.l, << >>)
      [] v.t = "dict" ->
            IF v.l = << >> THEN [exc |-> "", val |-> << >>]
            ELSE [exc |-> "TypeError", val |-> << >>]
      [] v.t = "str" ->
            IF v.s = << >> THEN [exc |-> "", val |-> << >>]
            ELSE [exc |-> "TypeError", val |-> << >>]
      [] OTHER -> [exc |-> "TypeError", val |-> << >>]

\* Cache.read: [exc, val]; only json.JSONDecodeError is caught
read(f) ==
    IF ~f.exists THEN [exc |-> "FileNotFoundError", val |-> << >>]
    ELSE LET z == decompress(f.bytes)
         IN  IF ~z.ok THEN [exc |-> "zlib.error", val |-> << >>]
             ELSE IF ~decode_ok(z.data)
                  THEN [exc |-> "UnicodeDecodeError", val |-> << >>]
             ELSE LET j == json_loads(z.data)
                  IN  IF ~j.ok THEN [exc |-> "", val |-> << >>]
                      ELSE StarsOfValue(j.v)

\* the cache written after filter_stars has set the matches
stars_compressed_AfterFilter(ss) ==
    LET fs == filter_stars(ss, greps, filter_and).stars
    IN  compress(json_dumps(PyList([i \in 1..Len(fs) |-> vars_of(fs[i])])))

\* Cache.write, lines 314-315: what is written
stars_compressed(ss) ==
    compress(json_dumps(PyList([i \in 1..Len(ss) |-> vars_of(ss[i])])))

\* Cache.write, line 316: open(self.file, 'wb') truncates or creates
write_open(f) == EmptyFile

\* Cache.write, line 317: f.write(stars_compressed)
write_data(f, ss) == [exists |-> TRUE, bytes |-> stars_compressed(ss)]

\* Cache.write as a whole
write(f, ss) == write_data(write_open(f), ss)

----------------------------------------------------------------------------
(* The remote service.  remote.pages[p] lists the repositories of page p   *)
(* by their number in the catalogue; remote.link is the kind of link       *)
(* header the page-1 response carries.                                     *)

Digits == << "1", "2", "3", "4", "5", "6", "7", "8", "9" >>

RepoName(i) == << "r", Digits[i] >>
FullName(i) == << "o", "/" >> \o RepoName(i)

\* what the API tells of repository i
Description(i) ==
    CASE i = 1 -> PyStr(<< "a", "b" >>)
      [] i = 2 -> PyNone
      [] OTHER -> PyStr(<< "a", NL, "c" >>)

\* one entry of the listing body
RawStar(i) ==
    PyDict(<< Pair(K("id"), PyInt(i)),
              Pair(K("name"), PyStr(RepoName(i))),
              Pair(K("full_name"), PyStr(FullName(i))),
              Pair(K("owner"), PyDict(<< Pair(K("login"), PyStr(<< "o" >>)) >>)),
              Pair(K("html_url"), PyStr(<< "https://github.com/" >> \o FullName(i))),
              Pair(K("description"), Description(i)),
              Pair(K("fork"), PyInt(0)),
              Pair(K("default_branch"), PyStr(<< "main" >>)) >>)

\* the README endpoint's answer for a repository: [status, text]
ReadmeResponse(full_name, default_branch) ==
    CASE full_name = FullName(1) ->
            [status |-> 200, text |-> << "b", NL, "a" >>]
      [] full_name = FullName(3) -> [status |-> 200, text |-> << >>]
      [] OTHER -> [status |-> 404, text |-> << "404: Not Found" >>]

\* a link header: [present, rels], each rel [rel, url]
Rel(name, p) ==
    [rel |-> name,
     url |-> << "https://api.github.com/user/1/starred?per_page=50",
                "&page=", Digits[p] >>]

NoLink == [present |-> FALSE, rels |-> << >>]

LinkHeader(kind, n) ==
    CASE kind = "none" -> NoLink
      [] kind = "last" ->
            [present |-> TRUE, rels |-> << Rel("next", 2), Rel("last", n) >>]
      [] OTHER ->
            [present |-> TRUE, rels |-> << Rel("prev", 1), Rel("first", 1) >>]

ResponseKinds == {"ok", "ConnectionError", "404", "500", "502"}

\* the answer of the listing endpoint to a request for page p, by the kind
\* of answer: [raised, status, link, text]
ListingResponse(rem, p, kind, later) ==
    CASE kind = "ok" ->
            [raised |-> "", status |-> 200,
             link |-> IF p = 1 THEN LinkHeader(rem.link, Len(rem.pages))
                      ELSE LinkHeader(later, Len(rem.pages) + 1),
             text |-> json_dumps(PyList([i \in 1..Len(rem.pages[p]) |->
                                            RawStar(rem.pages[p][i])]))]
      [] kind = "404" ->
            [raised |-> "", status |-> 404, link |-> NoLink,
             text |-> json_dumps(PyDict(<< Pair(K("message"),
                                                PyStr(<< "Not Found" >>)) >>))]
      [] kind = "500" ->
            [raised |-> "", status |-> 500, link |-> NoLink,
             text |-> json_dumps(PyList(<< >>))]
      [] kind = "502" ->
            [raised |-> "", status |-> 502, link |-> NoLink,
             text |-> << Lex("<html>") >>]
      [] OTHER ->
            [raised |-> "ConnectionError", status |-> 0, link |-> NoLink,
             text |-> << >>]

----------------------------------------------------------------------------
(* Findstar.parse_link_header, fetch_readme, fetch_page *)

\* url.split("&page=")[1]: the symbols after the first "&page=", up to the
\* next one; the url has one
AfterPage(url) ==
    LET i == CHOOSE j \in 1..Len(url) :
                 url[j] = "&page=" /\ \A m \in 1..(j-1) : url[m] # "&page="
        rest == SubSeq(url, i + 1, Len(url))
    IN  IF \E j \in 1..Len(rest) : rest[j] = "&page="
        THEN SubSeq(rest, 1, (CHOOSE j \in 1..Len(rest) :
                 rest[j] = "&page=" /\ \A m \in 1..(j-1) : rest[m] # "&page=") - 1)
        ELSE rest

\* int(x) of one digit
IntOf(x) == CHOOSE d \in 1..Len(Digits) : Digits[d] = x[1]

\* the rels named "last", in order
LastRels(link) == SelectSeq(link.rels, LAMBDA r : r.rel = "last")

\* parse_link_header: [exc, val]; last_page is bound by the else branch or
\* by a rel named "last" only
parse_link_header(response) ==
    IF response.link.present
    THEN LET ls == LastRels(response.link)
         IN  IF ls = << >>
             THEN [exc |-> "UnboundLocalError", val |-> 0]
             ELSE [exc |-> "", val |-> IntOf(AfterPage(ls[Len(ls)].url))]
    ELSE [exc |-> "", val |-> 1]

\* fetch_readme: [exc, val]; failed is a transport error of requests.get
fetch_readme(full_name, default_branch, failed) ==
    IF failed THEN [exc |-> "ConnectionError", val |-> << >>]
    ELSE LET r == ReadmeResponse(full_name, default_branch)
         IN  IF r.status = 200
             THEN [exc |-> "", val |-> r.text]
             ELSE [exc |-> "", val |-> << >>]

RawKeys ==
    << K("id"), K("name"), K("owner"), K("full_name"), K("html_url"),
       K("default_branch"), K("description") >>

\* lines 158-171: the stars of the entries, README request number fail_at
\* failing: [exc, val, readmes]
RECURSIVE PageStars(_, _, _, _)
PageStars(entries, fail_at, acc, reqs) ==
    IF entries = << >> THEN [exc |-> "", val |-> acc, readmes |-> reqs]
    ELSE LET e == Head(entries)
         IN  IF e.t # "dict"
             THEN [exc |-> "TypeError", val |-> << >>, readmes |-> reqs]
             ELSE IF \/ \E i \in 1..Len(RawKeys) : ~HasKey(e, RawKeys[i])
                     \/ Get(e, K("owner")).t # "dict"
                     \/ ~HasKey(Get(e, K("owner")), K("login"))
             THEN [exc |-> "KeyError", val |-> << >>, readmes |-> reqs]
             ELSE LET full == Get(e, K("full_name"))
                      rd == fetch_readme(full.s, Get(e, K("default_branch")).s,
                                         fail_at = Len(reqs) + 1)
                      now == Append(reqs, full.s)
                      st == Star_init(PyDict(<<
                              Pair(K("id"), Get(e, K("id"))),
                              Pair(K("name"), Get(e, K("name"))),
                              Pair(K("owner"), Get(Get(e, K("owner")), K("login"))),
                              Pair(K("full_name"), full),
                              Pair(K("html_url"), Get(e, K("html_url"))),
                              Pair(K("default_branch"), Get(e, K("default_branch"))),
                              Pair(K("description"), Get(e, K("description"))),
                              Pair(K("readme"), PyStr(rd.val)) >>))
                  IN  IF rd.exc # ""
                      THEN [exc |-> rd.exc, val |-> << >>, readmes |-> now]
                      ELSE PageStars(Tail(entries), fail_at,
                                     Append(acc, st.star), now)

\* what iterating a JSON value yields
IterOf(v) ==
    CASE v.t = "list" -> [exc |-> "", items |-> v.l]
      [] v.t = "dict" ->
            [exc |-> "", items |-> [i \in 1..Len(v.l) |-> PyStr(v.l[i].k)]]
      [] v.t = "str" ->
            [exc |-> "", items |-> [i \in 1..Len(v.s) |-> PyStr(<< v.s[i] >>)]]
      [] OTHER -> [exc |-> "TypeError", items |-> << >>]

\* the Link header read on every page
ParsesLink_Always(p) == TRUE

\* line 153: if page == 1, the only place self.last_page is assigned
ParsesLink(p) == p = 1

\* fetch_page(p) on the response the request gets, with self.last_page = lp:
\* [exc, val, last_page, readmes]
fetch_page(p, response, lp, fail_at) ==
    IF response.raised # ""
    THEN [exc |-> response.raised, val |-> << >>, last_page |-> lp,
          readmes |-> << >>]
    ELSE LET pl == IF ParsesLink(p) THEN parse_link_header(response)
                   ELSE [exc |-> "", val |-> lp]
             j == json_loads(response.text)
             it == IterOf(j.v)
             ps == PageStars(it.items, fail_at, << >>, << >>)
         IN  IF pl.exc # ""
             THEN [exc |-> pl.exc, val |-> << >>, last_page |-> lp,
                   readmes |-> << >>]
             ELSE IF ~j.ok
             THEN [exc |-> "JSONDecodeError", val |-> << >>,
                   last_page |-> pl.val, readmes |-> << >>]
             ELSE IF it.exc # ""
             THEN [exc |-> it.exc, val |-> << >>, last_page |-> pl.val,
                   readmes |-> << >>]
             ELSE [exc |-> ps.exc, val |-> ps.val, last_page |-> pl.val,
                   readmes |-> ps.readmes]

----------------------------------------------------------------------------
(* The runs of the program: Findstar.__init__, one run after another       *)

PageChoices == { << 1 >>, << 3, 2 >> }

RECURSIVE SeqsUpTo(_, _)
SeqsUpTo(S, n) ==
    IF n = 0 THEN { << >> }
    ELSE LET shorter == SeqsUpTo(S, n - 1)
         IN  shorter \cup { Append(x, e) : x \in shorter, e \in S }

Remotes ==
    { [pages |-> ps, link |-> k] :
        ps \in SeqsUpTo(PageChoices, MaxPages) \ { << >> },
        k \in {"none", "last", "nolast"} }

\* a repository that was starred once and is no longer listed
OldStar ==
    [id |-> PyInt(9), name |-> PyStr(RepoName(9)), owner |-> PyStr(<< "o" >>),
     full_name |-> PyStr(FullName(9)),
     html_url |-> PyStr(<< "https://github.com/" >> \o FullName(9)),
     default_branch |-> PyStr(<< "main" >>), description |-> PyStr(<< "a" >>),
     readme |-> PyStr(<< >>), matches |-> PyList(<< >>)]

GrepChoices == { << >>, << << "a" >> >>, << << "b" >>, << "c" >> >> }

NoPrev == [ok |-> FALSE, bytes |-> << >>]

\* no reader has looked at the file
NoObs == [did |-> FALSE, at |-> "", file |-> NoFile]

\* every listing response of the run was the remote's own answer
Clean(sn) == \A i \in 1..Len(sn) : sn[i].kind = "ok"

Init ==
    /\ pc = "idle"
    /\ flush = FALSE
    /\ filter_and = FALSE
    /\ greps = << >>
    /\ file \in { NoFile, write(NoFile, << OldStar >>) }
    /\ remote \in Remotes
    /\ stars = << >>
    /\ matching_stars = << >>
    /\ last_page = 1
    /\ page = 1
    /\ exc = ""
    /\ listing_reqs = << >>
    /\ readme_reqs = << >>
    /\ seen = << >>
    /\ start_file = NoFile
    /\ wrote = FALSE
    /\ prev = NoPrev
    /\ ops = << >>
    /\ reader = NoObs
    /\ given = << >>

\* lines 31-46
Start(f, a, g) ==
    /\ pc \in {"idle", "done", "error"}
    /\ flush' = f
    /\ filter_and' = a
    /\ greps' = g
    /\ last_page' = 1
    /\ stars' = << >>
    /\ matching_stars' = << >>
    /\ page' = 1
    /\ exc' = ""
    /\ listing_reqs' = << >>
    /\ readme_reqs' = << >>
    /\ seen' = << >>
    /\ start_file' = file
    /\ wrote' = FALSE
    /\ prev' = IF pc = "done" /\ flush /\ Clean(seen)
               THEN [ok |-> TRUE, bytes |-> file.bytes]
               ELSE NoPrev
    /\ pc' = "init"
    /\ ops' = << >>
    /\ reader' = NoObs
    /\ UNCHANGED << file, remote, given >>

\* lines 49-53
FlushEmpty ==
    /\ pc = "init" /\ flush /\ file_exists(file)
    /\ file' = empty(file)
    /\ pc' = "fetch"
    /\ ops' = Append(ops, "empty")
    /\ UNCHANGED << remote, flush, filter_and, greps, stars, matching_stars,
                    last_page, page, exc, listing_reqs, readme_reqs, seen,
                    start_file, wrote, prev, given, reader >>

\* lines 49-56
FlushCreate ==
    /\ pc = "init" /\ flush /\ ~file_exists(file)
    /\ file' = create_file(file)
    /\ pc' = "fetch"
    /\ ops' = Append(ops, "create_file")
    /\ UNCHANGED << remote, flush, filter_and, greps, stars, matching_stars,
                    last_page, page, exc, listing_reqs, readme_reqs, seen,
                    start_file, wrote, prev, given, reader >>

\* lines 61-63
NormalMiss ==
    /\ pc = "init" /\ ~flush /\ ~file_exists(file)
    /\ pc' = "fetch"
    /\ UNCHANGED ops
    /\ UNCHANGED << file, remote, flush, filter_and, greps, stars,
                    matching_stars, last_page, page, exc, listing_reqs,
                    readme_reqs, seen, start_file, wrote, prev, given, reader >>

\* lines 68-70
NormalRead ==
    /\ pc = "init" /\ ~flush /\ file_exists(file)
    /\ LET r == read(file)
       IN  /\ stars' = r.val
           /\ exc' = r.exc
           /\ pc' = IF r.exc = "" THEN "filter" ELSE "error"
    /\ ops' = Append(ops, "read")
    /\ UNCHANGED << file, remote, flush, filter_and, greps, matching_stars,
                    last_page, page, listing_reqs, readme_reqs, seen,
                    start_file, wrote, prev, given, reader >>

\* line 133: self.stars = ..., line 139: self.stars += ...
NextStars(p, ss, val) == IF p = 1 THEN val ELSE ss \o val

\* the loop written as range(2, self.last_page)
MorePages_StopsEarly(p, lp) == p + 1 < lp

\* lines 135-136: after page p, range(2, self.last_page+1) has a next page
MorePages(p, lp) == p + 1 <= lp

\* what follows fetch_stars: line 59, or lines 66-67
AfterFetch(f) == IF f THEN "write" ELSE "create"

\* one turn of fetch_stars: line 133, or line 139 for a page of the loop
FetchPage(kind, later, fail_at) ==
    /\ pc = "fetch"
    /\ page <= Len(remote.pages)
    /\ fail_at <= Len(remote.pages[page])
    /\ kind = "ok" \/ fail_at = 0
    /\ later = (IF kind # "ok" THEN "none"
                ELSE IF page = 1 THEN remote.link ELSE later)
    /\ LET r == fetch_page(page, ListingResponse(remote, page, kind, later),
                           last_page, fail_at)
       IN  /\ listing_reqs' = Append(listing_reqs, page)
           /\ readme_reqs' = readme_reqs \o r.readmes
           /\ seen' = Append(seen, [kind |-> kind, link |-> later])
           /\ last_page' = r.last_page
           /\ exc' = r.exc
           /\ IF r.exc # ""
              THEN /\ pc' = "error"
                   /\ UNCHANGED << stars, page >>
              ELSE /\ stars' = NextStars(page, stars, r.val)
                   /\ page' = page + 1
                   /\ pc' = IF MorePages(page, r.last_page)
                            THEN "fetch" ELSE AfterFetch(flush)
    /\ UNCHANGED ops
    /\ UNCHANGED << file, remote, flush, filter_and, greps, matching_stars,
                    start_file, wrote, prev, given, reader >>

\* line 66
CreateFile ==
    /\ pc = "create"
    /\ file' = create_file(file)
    /\ pc' = "write"
    /\ ops' = Append(ops, "create_file")
    /\ UNCHANGED << remote, flush, filter_and, greps, stars, matching_stars,
                    last_page, page, exc, listing_reqs, readme_reqs, seen,
                    start_file, wrote, prev, given, reader >>

\* lines 59/67, Cache.write up to line 316
WriteOpen ==
    /\ pc = "write"
    /\ file' = write_open(file)
    /\ wrote' = TRUE
    /\ pc' = "write_data"
    /\ ops' = Append(ops, "write")
    /\ UNCHANGED << remote, flush, filter_and, greps, stars, matching_stars,
                    last_page, page, exc, listing_reqs, readme_reqs, seen,
                    start_file, prev, given, reader >>

\* Cache.write, line 317
WriteData ==
    /\ pc = "write_data"
    /\ file' = write_data(file, stars)
    /\ pc' = "filter"
    /\ UNCHANGED ops
    /\ UNCHANGED << remote, flush, filter_and, greps, stars, matching_stars,
                    last_page, page, exc, listing_reqs, readme_reqs, seen,
                    start_file, wrote, prev, given, reader >>

\* line 73
Filter ==
    /\ pc = "filter"
    /\ LET r == filter_stars(stars, greps, filter_and)
       IN  /\ stars' = r.stars
           /\ matching_stars' = r.matching
           /\ exc' = r.exc
           /\ pc' = IF r.exc = "" THEN "done" ELSE "error"
    /\ UNCHANGED ops
    /\ UNCHANGED << file, remote, flush, filter_and, greps, last_page, page,
                    listing_reqs, readme_reqs, seen, start_file, wrote,
                    prev, given, reader >>

Next ==
    \/ \E f \in BOOLEAN, a \in BOOLEAN, g \in GrepChoices : Start(f, a, g)
    \/ FlushEmpty
    \/ FlushCreate
    \/ NormalMiss
    \/ NormalRead
    \/ \E kind \in ResponseKinds, later \in {"none", "last", "nolast"},
          fail_at \in 0..2 : FetchPage(kind, later, fail_at)
    \/ CreateFile
    \/ WriteOpen
    \/ WriteData
    \/ Filter

Spec == Init /\ [][Next]_vars

----------------------------------------------------------------------------
(* A reader of the same user's file in another process: the open and the   *)
(* f.read() of Cache.read, line 304-306, at any moment of the run          *)

ReaderRead ==
    /\ pc \in {"init", "fetch", "create", "write", "write_data", "filter"}
    /\ ~reader.did
    /\ reader' = [did |-> TRUE, at |-> pc, file |-> file]
    /\ UNCHANGED << file, remote, pc, flush, filter_and, greps, stars,
                    matching_stars, last_page, page, exc, listing_reqs,
                    readme_reqs, seen, start_file, wrote, prev, given, ops >>

ConcNext == Next \/ ReaderRead

ConcSpec == Init /\ [][ConcNext]_vars

----------------------------------------------------------------------------
(* Cache.write and Cache.read applied on their own to a sequence of records *)

TextStars ==
    { [id |-> PyInt(7), name |-> PyStr(RepoName(7)), owner |-> PyStr(<< "o" >>),
       full_name |-> PyStr(FullName(7)),
       html_url |-> PyStr(<< "https://github.com/" >> \o FullName(7)),
       default_branch |-> PyStr(<< "main" >>), description |-> d,
       readme |-> r, matches |-> m] :
        d \in { PyNone, PyStr(<< >>), PyStr(<< "a", NL, "b" >>) },
        r \in { PyStr(<< >>), PyStr(<< "b" >>) },
        m \in { PyList(<< >>), PyList(<< PyStr(<< "a" >>) >>) } }

CacheInit ==
    /\ pc = "cache_write"
    /\ flush = FALSE
    /\ filter_and = FALSE
    /\ greps = << >>
    /\ file \in { NoFile, write(NoFile, << OldStar >>) }
    /\ given \in SeqsUpTo(TextStars, MaxStars)
    /\ remote = [pages |-> << << >> >>, link |-> "none"]
    /\ stars = << >>
    /\ matching_stars = << >>
    /\ last_page = 1
    /\ page = 1
    /\ exc = ""
    /\ listing_reqs = << >>
    /\ readme_reqs = << >>
    /\ seen = << >>
    /\ start_file = NoFile
    /\ wrote = FALSE
    /\ prev = NoPrev
    /\ ops = << >>
    /\ reader = NoObs

CacheWrite ==
    /\ pc = "cache_write"
    /\ file' = write(file, given)
    /\ wrote' = TRUE
    /\ pc' = "cache_read"
    /\ ops' = Append(ops, "write")
    /\ UNCHANGED << remote, flush, filter_and, greps, stars, matching_stars,
                    last_page, page, exc, listing_reqs, readme_reqs, seen,
                    start_file, prev, given, reader >>

CacheRead ==
    /\ pc = "cache_read"
    /\ LET r == read(file)
       IN  /\ stars' = r.val
           /\ exc' = r.exc
    /\ pc' = "cache_done"
    /\ ops' = Append(ops, "read")
    /\ UNCHANGED << file, remote, flush, filter_and, greps, matching_stars,
                    last_page, page, listing_reqs, readme_reqs, seen,
                    start_file, wrote, prev, given, reader >>

CacheNext == CacheWrite \/ CacheRead

CacheSpec == CacheInit /\ [][CacheNext]_vars

----------------------------------------------------------------------------
(* filter_stars applied on its own to a sequence of records *)

FilterStar(i, d, r) ==
    [id |-> PyInt(i), name |-> PyStr(RepoName(i)), owner |-> PyStr(<< "o" >>),
     full_name |-> PyStr(FullName(i)),
     html_url |-> PyStr(<< "https://github.com/" >> \o FullName(i)),
     default_branch |-> PyStr(<< "main" >>), description |-> d,
     readme |-> r, matches |-> PyList(<< >>)]

DescChoices ==
    { PyNone, PyStr(<< "a" >>), PyStr(<< "a", "b" >>), PyStr(<< "c", NL, "a" >>) }

ReadmeChoices ==
    { PyNone, PyStr(<< >>), PyStr(<< "b" >>),
      PyStr(<< "b", NL, "c", NL, "a" >>) }

\* the sequences of at most n records, the record at place i having id i
RECURSIVE FilterInputs(_)
FilterInputs(n) ==
    IF n = 0 THEN { << >> }
    ELSE LET shorter == FilterInputs(n - 1)
         IN  shorter \cup
             { Append(x, FilterStar(n, d, r)) :
                 x \in { y \in shorter : Len(y) = n - 1 },
                 d \in DescChoices, r \in ReadmeChoices }

FilterGreps ==
    { << >>, << << "a" >> >>, << << "a" >>, << "b" >> >>, << << >> >>,
      << << "a", "b" >> >> }

FilterInit ==
    /\ given \in FilterInputs(MaxStars)
    /\ stars = given
    /\ greps \in FilterGreps
    /\ filter_and \in BOOLEAN
    /\ pc = "filter"
    /\ file = NoFile
    /\ remote = [pages |-> << << >> >>, link |-> "none"]
    /\ flush = FALSE
    /\ matching_stars = << >>
    /\ last_page = 1
    /\ page = 1
    /\ exc = ""
    /\ listing_reqs = << >>
    /\ readme_reqs = << >>
    /\ seen = << >>
    /\ start_file = NoFile
    /\ wrote = FALSE
    /\ prev = NoPrev
    /\ ops = << >>
    /\ reader = NoObs

FilterNext == Filter

FilterSpec == FilterInit /\ [][FilterNext]_vars

----------------------------------------------------------------------------
(* Properties *)

\* C1 (round trip): once Cache.write(R) and then Cache.read() have run, read
\* has raised nothing and returned as many records as R has, in the order
\* of R, each equal to the record of R at its place on every field but
\* matches.
C1_RoundTrip ==
    pc = "cache_done" =>
        /\ exc = ""
        /\ Len(stars) = Len(given)
        /\ \A i \in 1..Len(given) : Canon(stars[i]) = Canon(given[i])

\* a round trip of two records, one with no description and an empty
\* readme, one with matches set
C1_Witness ==
    /\ pc = "cache_done"
    /\ Len(given) = 2
    /\ given[1].description = PyNone
    /\ given[1].readme = PyStr(<< >>)
    /\ given[2].description # PyNone
    /\ given[2].matches # PyList(<< >>)
    /\ Len(stars) = 2

\* the run took the branch of line 70 and Cache.read has returned or raised
ReadCalled ==
    /\ ~flush
    /\ file_exists(start_file)
    /\ pc \in {"filter", "done", "error"}

\* the bytes of the entry do not decode to a list of records
Undecodable(f) ==
    \/ ~decompress(f.bytes).ok
    \/ ~decode_ok(decompress(f.bytes).data)
    \/ ~json_loads(decompress(f.bytes).data).ok

\* C2 (read never raises): when a run reads an entry that exists, read
\* raises nothing, and when the entry is empty or does not decode, read
\* returns the empty sequence.
C2_ReadNeverRaises ==
    ReadCalled =>
        /\ exc = ""
        /\ Undecodable(start_file) => stars = << >>

\* the last listing request of the run failed: a transport error or a
\* non-success status
ListingFailed == seen # << >> /\ seen[Len(seen)].kind # "ok"

\* C3 (no partial overwrite): when a listing request fails and the run
\* aborts, the entry holds exactly what it held when the run started.
C3_AbortKeepsEntry ==
    (pc = "error" /\ ListingFailed) =>
        /\ file.bytes = start_file.bytes
        /\ file_exists(start_file) => file_exists(file)

\* the run received a listing response with a non-success status as its
\* i-th response
NonSuccessAt(i) == i \in 1..Len(seen) /\ seen[i].kind \in {"404", "500", "502"}

\* C4 (a non-success status is fatal): once a listing response with a
\* non-success status has been received, the run has ended in an error, no
\* page was requested after it and Cache.write was not called.
C4_NonSuccessIsFatal ==
    \A i \in 1..Len(seen) :
        NonSuccessAt(i) =>
            /\ pc = "error"
            /\ Len(listing_reqs) = i
            /\ ~wrote

\* the record fetch_page builds for repository i when nothing fails
ExpectedStar(i) ==
    [id |-> PyInt(i), name |-> PyStr(RepoName(i)), owner |-> PyStr(<< "o" >>),
     full_name |-> PyStr(FullName(i)),
     html_url |-> PyStr(<< "https://github.com/" >> \o FullName(i)),
     default_branch |-> PyStr(<< "main" >>), description |-> Description(i),
     readme |-> PyStr(IF i = 1 THEN << "b", NL, "a" >> ELSE << >>),
     matches |-> PyList(<< >>)]

\* the records of the pages 1..n of the remote, page after page
RECURSIVE ExpectedUpTo(_)
ExpectedUpTo(n) ==
    IF n = 0 THEN << >>
    ELSE ExpectedUpTo(n - 1)
         \o [i \in 1..Len(remote.pages[n]) |-> ExpectedStar(remote.pages[n][i])]

\* fetch_stars has returned
Fetched == seen # << >> /\ pc \in {"create", "write", "write_data", "filter", "done"}

\* C5 (pagination completeness): when page 1 announces last page N and
\* every listing request succeeds, the pages requested so far are 1, 2, ...
\* in ascending order, each once and none beyond N, and once fetch_stars
\* has returned they are exactly 1..N and the records are those of the
\* pages 1..N, page after page, in the order of each page.
C5_PaginationComplete ==
    (seen # << >> /\ Clean(seen) /\ remote.link = "last") =>
        /\ listing_reqs = [i \in 1..Len(listing_reqs) |-> i]
        /\ Len(listing_reqs) <= Len(remote.pages)
        /\ Fetched =>
            /\ Len(listing_reqs) = Len(remote.pages)
            /\ [i \in 1..Len(stars) |-> Canon(stars[i])]
                   = ExpectedUpTo(Len(remote.pages))

\* a fetch of MaxPages pages of different sizes has returned
C5_Witness ==
    /\ Fetched /\ Clean(seen) /\ remote.link = "last"
    /\ Len(remote.pages) = MaxPages
    /\ MaxPages >= 2
    /\ Len(remote.pages[1]) # Len(remote.pages[2])
    /\ Len(listing_reqs) = MaxPages
    /\ pc = "write"

\* C6 (missing pagination metadata): when the page-1 response has no link
\* header, or a link header with no relation named last, and no README
\* request fails, the run is not aborted, the last-page index is 1 and
\* exactly one listing request, for page 1, is issued.
C6_NoMetadataSinglePage ==
    (/\ seen # << >>
     /\ seen[1].kind = "ok"
     /\ remote.link \in {"none", "nolast"}
     /\ exc # "ConnectionError") =>
        /\ pc # "error"
        /\ last_page = 1
        /\ listing_reqs = << 1 >>

\* the run was aborted by a README request that raised
ReadmeRaised ==
    /\ pc = "error"
    /\ exc = "ConnectionError"
    /\ seen # << >>
    /\ seen[Len(seen)].kind = "ok"

\* C7 (a README failure is not fatal): no README request aborts the run,
\* and a record whose README request got a non-success status has the
\* empty readme.
C7_ReadmeFailureNotFatal ==
    /\ ~ReadmeRaised
    /\ \A i \in 1..Len(stars) :
           stars[i].id = PyInt(2) => stars[i].readme = PyStr(<< >>)

\* C10 (idempotent refresh): when a forced refresh completes on the
\* remote's own answers right after another forced refresh that did, the
\* entry holds the same bytes as after the first.
C10_IdempotentRefresh ==
    (pc = "done" /\ flush /\ Clean(seen) /\ prev.ok) =>
        file.bytes = prev.bytes

\* the second of two forced refreshes has completed, with records in the
\* entry and matches found in this run
C10_Witness ==
    /\ pc = "done" /\ flush /\ Clean(seen) /\ prev.ok
    /\ Len(stars) >= 2
    /\ matching_stars # << >>
    /\ read(file).val # << >>

\* the lines of a record that hold at least one keyword of greps,
\* description lines before readme lines
RECURSIVE KeepCandidates(_)
KeepCandidates(lines) ==
    IF lines = << >> THEN << >>
    ELSE IF \E k \in 1..Len(greps) : In(greps[k], Head(lines))
         THEN << Head(lines) >> \o KeepCandidates(Tail(lines))
         ELSE KeepCandidates(Tail(lines))

Candidates(star) ==
    KeepCandidates(LinesOf(star.description) \o LinesOf(star.readme))

\* the record given at place i is among the records filter_stars returned
Returned(i) == \E j \in 1..Len(matching_stars) : matching_stars[j].id = PyInt(i)

\* C8 (OR mode): with at least one keyword, filter_stars returns exactly
\* the given records that have a candidate line, in the order given, each
\* with its candidate lines as matches and otherwise unchanged.
C8_OrMode ==
    (pc = "done" /\ ~filter_and /\ greps # << >>) =>
        /\ \A j \in 1..Len(matching_stars) :
              LET i == matching_stars[j].id.n
              IN  /\ i \in 1..Len(given)
                  /\ Canon(matching_stars[j]) = given[i]
                  /\ Candidates(given[i]) # << >>
                  /\ matching_stars[j].matches
                         = PyList([m \in 1..Len(Candidates(given[i])) |->
                                      PyStr(Candidates(given[i])[m])])
        /\ \A j, k \in 1..Len(matching_stars) :
              j < k => matching_stars[j].id.n < matching_stars[k].id.n
        /\ \A i \in 1..Len(given) :
              Candidates(given[i]) # << >> => Returned(i)

\* OR mode has returned the second of two records, with candidate lines of
\* its description and of its readme, and has left the first out
C8_Witness ==
    /\ pc = "done" /\ ~filter_and
    /\ greps = << << "a" >>, << "b" >> >>
    /\ Len(given) = 2
    /\ given[1].description = PyNone
    /\ given[1].readme = PyStr(<< >>)
    /\ given[2].description = PyStr(<< "c", NL, "a" >>)
    /\ given[2].readme = PyStr(<< "b", NL, "c", NL, "a" >>)
    /\ Len(matching_stars) = 1
    /\ Len(matching_stars[1].matches.l) = 3

\* every keyword is in some candidate line of the record
EveryKeyword(star) ==
    \A k \in 1..Len(greps) :
        \E m \in 1..Len(Candidates(star)) : In(greps[k], Candidates(star)[m])

\* C9 as stated (AND mode): filter_stars returns a record if and only if
\* every keyword is in at least one of its candidate lines.
C9_AndMode_Original ==
    (pc = "done" /\ filter_and) =>
        \A i \in 1..Len(given) : Returned(i) <=> EveryKeyword(given[i])

\* C9 amended (AND mode): with at least one keyword, filter_stars returns
\* a record if and only if every keyword is in at least one of its
\* candidate lines, whichever line and field holds each keyword.
C9_AndMode ==
    (pc = "done" /\ filter_and /\ greps # << >>) =>
        /\ \A i \in 1..Len(given) : Returned(i) <=> EveryKeyword(given[i])
        /\ \A j, k \in 1..Len(matching_stars) :
              j < k => matching_stars[j].id.n < matching_stars[k].id.n

\* AND mode has returned a record with one keyword in its description only
\* and the other in its readme only, and has left out a record that holds
\* one of the keywords only
C9_Witness ==
    /\ pc = "done" /\ filter_and
    /\ greps = << << "a" >>, << "b" >> >>
    /\ Len(given) = 2
    /\ given[1].description = PyStr(<< "a" >>)
    /\ given[1].readme = PyStr(<< "b" >>)
    /\ given[2].description = PyStr(<< "a" >>)
    /\ given[2].readme = PyStr(<< >>)
    /\ Returned(1)
    /\ ~Returned(2)

\* the candidate lines of one text field, none for a field that is null
FieldCandidates(v) == IF v = PyNone THEN << >> ELSE KeepCandidates(Split(v.s))

\* the matches a record has when its candidate lines are c
MatchList(c) == PyList([m \in 1..Len(c) |-> PyStr(c[m])])

\* a record with candidate lines c is returned in the mode of the run
ReturnedFor(c) ==
    /\ c # << >>
    /\ filter_and =>
          \A k \in 1..Len(greps) : \E m \in 1..Len(c) : In(greps[k], c[m])

\* C11 (empty-field safety): filter_stars raises nothing on records whose
\* description or readme is null; such a record's matches are the candidate
\* lines of its other field alone, and it is returned, in OR and in AND
\* mode, as those lines decide.
C11_NullFieldSafe ==
    (pc \in {"done", "error"}) =>
        /\ exc = ""
        /\ pc = "done"
        /\ \A i \in 1..Len(given) :
              /\ given[i].description = PyNone =>
                    /\ stars[i].matches
                           = MatchList(FieldCandidates(given[i].readme))
                    /\ Returned(i)
                           <=> ReturnedFor(FieldCandidates(given[i].readme))
              /\ given[i].readme = PyNone =>
                    /\ stars[i].matches
                           = MatchList(FieldCandidates(given[i].description))
                    /\ Returned(i)
                           <=> ReturnedFor(FieldCandidates(given[i].description))

\* AND mode has filtered a record with no readme and a record with no
\* description, returning the one whose other field holds both keywords
C11_Witness ==
    /\ pc = "done" /\ filter_and
    /\ greps = << << "a" >>, << "b" >> >>
    /\ Len(given) = 2
    /\ given[1].readme = PyNone
    /\ given[1].description = PyStr(<< "c", NL, "a" >>)
    /\ given[2].description = PyNone
    /\ given[2].readme = PyStr(<< "b", NL, "c", NL, "a" >>)
    /\ ~Returned(1)
    /\ Returned(2)
    /\ Len(stars[2].matches.l) = 2

\* the records without their matches
CanonAll(ss) == [i \in 1..Len(ss) |-> Canon(ss[i])]

\* C12 (write is atomic for readers): a reader in another process that
\* reads the entry during a run that started with a populated entry finds
\* either the complete prior content or, once the write is done, the
\* complete new content.
C12_WriteAtomic ==
    (reader.did /\ file_exists(start_file) /\ start_file.bytes # << >>) =>
        \/ reader.file = start_file
        \/ /\ reader.at = "filter"
           /\ reader.file.bytes = stars_compressed(CanonAll(stars))

\* C13 (no cache mutation after a listing failure): once a listing request
\* of the run has failed, no step of the run executes a Cache operation or
\* changes the entry, and whenever Cache.write has been executed every page
\* 1..last_page was requested and answered successfully.
C13_NoMutationAfterFailure ==
    /\ [][ (pc \notin {"idle", "done", "error"} /\ ~Clean(seen)) =>
               (ops' = ops /\ file' = file) ]_vars
    /\ [](wrote => (Clean(seen) /\ Len(listing_reqs) = last_page))

\* C14 (forced refresh): a forced refresh first clears the entry or creates
\* it, so the entry is empty while the pages are fetched; it requests every
\* page 1..last_page whatever the entry held; and once it has written, the
\* entry decodes to exactly the records fetched in this run, the record
\* of the prior content not among them.
C14_ForcedRefresh ==
    (flush /\ pc \notin {"idle", "init"}) =>
        /\ ops[1] = (IF file_exists(start_file) THEN "empty" ELSE "create_file")
        /\ pc \in {"fetch", "write"} => (file = EmptyFile /\ Len(ops) = 1)
        /\ pc \in {"filter", "done"} =>
              /\ ops = << ops[1], "write" >>
              /\ listing_reqs = [i \in 1..last_page |-> i]
              /\ read(file).exc = ""
              /\ read(file).val = CanonAll(stars)
              /\ \A i \in 1..Len(read(file).val) :
                     read(file).val[i] # OldStar

\* a forced refresh over an entry that held the prior record has completed
\* with two pages fetched and records written
C14_Witness ==
    /\ flush /\ pc = "done"
    /\ read(start_file).val = << OldStar >>
    /\ last_page = 2
    /\ Len(read(file).val) >= 2

\* C15 (read-after-write): a normal-use run that found no entry has, when
\* its records reach filter_stars, executed Cache.read as its last Cache
\* operation, right after Cache.write, and holds the records that read
\* returned.
C15_ReadAfterWrite ==
    (~flush /\ ~file_exists(start_file) /\ pc \in {"filter", "done"}) =>
        /\ Len(ops) >= 2
        /\ ops[Len(ops) - 1] = "write"
        /\ ops[Len(ops)] = "read"
        /\ CanonAll(stars) = read(file).val

\* C16 (a corrupt entry is no data): a normal-use run that found an entry
\* which is empty or does not deserialize ends having requested the
\* listing; it ends without an error raised by the cache, and when it
\* completes it has written the fetched records to the entry.
C16_CorruptIsNoData ==
    (~flush /\ file_exists(start_file) /\ Undecodable(start_file)
        /\ pc \in {"done", "error"}) =>
        /\ listing_reqs # << >>
        /\ exc \notin {"zlib.error", "UnicodeDecodeError", "FileNotFoundError"}
        /\ pc = "done" => (wrote /\ read(file).val = CanonAll(stars))

\* C17 (last_page comes from page 1 only): at every moment of a run
\* last_page is what the response to page 1 announced, or 1 when that
\* response carried no pagination metadata or has not arrived, whatever
\* the responses to the later pages carry; and a run that got through its
\* fetch requested exactly last_page pages.
C17_LastPageFromFirst ==
    /\ last_page = (IF seen # << >> /\ seen[1].kind = "ok"
                       /\ seen[1].link = "last"
                    THEN Len(remote.pages) ELSE 1)
    /\ (listing_reqs # << >>
          /\ pc \in {"create", "write", "write_data", "filter", "done"}) =>
           Len(listing_reqs) = last_page

\* a run completed after a second page whose response announced a further
\* last page
C17_Witness ==
    /\ pc = "done"
    /\ Len(seen) = 2
    /\ seen[2].kind = "ok" /\ seen[2].link = "last"
    /\ last_page = 2
    /\ listing_reqs = << 1, 2 >>

\* C18 (a cache hit touches nothing): a normal-use run that found an entry
\* which deserializes has sent no listing request and no README request,
\* has executed Cache.read and no other Cache operation, holds the records
\* that read returned, and has left the entry as it found it.
C18_CacheHit ==
    (~flush /\ start_file.exists /\ ~Undecodable(start_file)
        /\ read(start_file).exc = "" /\ pc \in {"filter", "done"}) =>
        /\ listing_reqs = << >>
        /\ readme_reqs = << >>
        /\ ops = << "read" >>
        /\ CanonAll(stars) = read(start_file).val
        /\ file = start_file

\* a normal-use run over an entry of two records or more has completed and
\* found matches
C18_Witness ==
    /\ ~flush /\ pc = "done"
    /\ start_file.exists
    /\ Len(read(start_file).val) >= 2
    /\ matching_stars # << >>
    /\ stars # CanonAll(stars)

\* every record stored in the entry, when it decodes to a list, has an
\* empty matches
StoredMatchesEmpty(f) ==
    LET z == decompress(f.bytes)
        j == json_loads(z.data)
    IN  (f.exists /\ z.ok /\ decode_ok(z.data) /\ j.ok /\ j.v.t = "list") =>
            \A i \in 1..Len(j.v.l) :
                /\ HasKey(j.v.l[i], K("matches"))
                /\ Get(j.v.l[i], K("matches")) = PyList(<< >>)

NoMatches(ss) == \A i \in 1..Len(ss) : ss[i].matches = PyList(<< >>)

\* C19 (matches is transient): until filter_stars runs, which is after any
\* Cache.write of the run, no record of the run has matches; every record
\* stored in the entry has an empty matches; and Cache.read returns
\* records with empty matches, also from an entry that stores the records
\* with the matches this run found.
C19_MatchesTransient ==
    /\ pc \in {"fetch", "create", "write", "write_data", "filter"} =>
           NoMatches(stars)
    /\ StoredMatchesEmpty(file)
    /\ NoMatches(read(file).val)
    /\ NoMatches(read([exists |-> TRUE, bytes |-> stars_compressed(stars)]).val)

\* a run over an entry of records has found matches, so that its records
\* carry them while the entry holds the same records
C19_Witness ==
    /\ pc = "done" /\ ~flush /\ ops = << "read" >>
    /\ ~NoMatches(stars)
    /\ CanonAll(stars) = read(file).val
    /\ Len(read(file).val) >= 2

\* C20 (no keyword, no result): on an empty keyword list filter_stars
\* completes, returns no record in OR mode and in AND mode, and sets the
\* matches of no record.
C20_NoKeywords ==
    (greps = << >> /\ pc # "filter") =>
        /\ pc = "done"
        /\ matching_stars = << >>
        /\ stars = given

\* filter_stars has run in AND mode with no keyword over two records that
\* have text
C20_Witness ==
    /\ pc = "done" /\ greps = << >> /\ filter_and
    /\ Len(given) = 2
    /\ given[1].description = PyStr(<< "a", "b" >>)
    /\ given[2].readme = PyStr(<< "b", NL, "c", NL, "a" >>)

============================================================================
